---- MODULE Spec2Model ----
(***************************************************************************)
(* Model of source/database.py of BookStack: the db_connection decorator,  *)
(* the create_table_* and insert_* functions it wraps, and the SQLite      *)
(* store they act on (tables, rows, constraints, rowid assignment, TEXT    *)
(* affinity, transactions of one connection).                              *)
(***************************************************************************)
EXTENDS Integers, Sequences, FiniteSets, TLC

(* ---------------------------------------------------------------- bounds *)

\* Largest number of rows the store holds over all of its tables.
MaxRows == 2

\* Largest number of rows of one table, where rows are inserted table by
\* table along the foreign keys.
MaxRowsEach == 1

(* ---------------------------------------------------------------- values *)

\* A Python value bound to a "?" placeholder, or a value stored in a column:
\* <<type, rendering>>.
NULL == <<"null", "">>
Text(s) == <<"text", s>>
Integer(s) == <<"int", s>>

\* 2**70, a Python int that does not fit SQLite's 64-bit INTEGER.
Big == <<"bigint", "1180591620717411303424">>

Values == {NULL, Text("a"), Text("7"), Integer("7"), Big}

\* No uncommitted row in the connection's transaction.
NoRow == [table |-> "none", id |-> 0, vals |-> <<>>]

NoCall == [f |-> "none", args |-> <<>>]

\* No read in progress.
NoResult == [type |-> "none", value |-> <<>>]

(* ------------------------------------------------------------ statements *)

Col(n, nn, u) == [name |-> n, notnull |-> nn, unique |-> u]

\* The CREATE TABLE statement of each create_table_* function: the table it
\* names and the non-ID columns it declares, in declaration order.  Every
\* statement declares ID INTEGER PRIMARY KEY first; every other column is
\* TEXT.
\* CREATE TABLE Title as it would be with NOT NULL left off Name.
CREATE_TABLE_Title_nullable_name ==
    [table |-> "Title", columns |-> << Col("Name", FALSE, FALSE) >>]

\* CREATE TABLE Title as it would be with Name declared UNIQUE as the Name
\* of Genre, Format and Publisher is.
CREATE_TABLE_Title_unique_name ==
    [table |-> "Title", columns |-> << Col("Name", TRUE, TRUE) >>]

CREATE_TABLE_Title ==
    [table |-> "Title", columns |-> << Col("Name", TRUE, FALSE) >>]

\* CREATE TABLE Genre as it would be with the GenreID column that the tests'
\* dictionary of columns lists.
CREATE_TABLE_Genre_with_genreid ==
    [table |-> "Genre",
     columns |-> << Col("GenreID", FALSE, FALSE), Col("Name", TRUE, TRUE) >>]

\* CREATE TABLE Genre as it would be with UNIQUE left off Name.
CREATE_TABLE_Genre_name_not_unique ==
    [table |-> "Genre", columns |-> << Col("Name", TRUE, FALSE) >>]

CREATE_TABLE_Genre ==
    [table |-> "Genre", columns |-> << Col("Name", TRUE, TRUE) >>]

\* CREATE TABLE of create_table_format as it would be had it kept the table
\* name of create_table_publisher.
CREATE_TABLE_Format_named_publisher ==
    [table |-> "Publisher", columns |-> << Col("Name", TRUE, TRUE) >>]

CREATE_TABLE_Format ==
    [table |-> "Format", columns |-> << Col("Name", TRUE, TRUE) >>]

CREATE_TABLE_Publisher ==
    [table |-> "Publisher", columns |-> << Col("Name", TRUE, TRUE) >>]

\* CREATE TABLE Condition as it would be with UNIQUE left off Description.
CREATE_TABLE_Condition_description_not_unique ==
    [table |-> "Condition",
     columns |-> << Col("Name", TRUE, TRUE), Col("Description", TRUE, FALSE) >>]

\* CREATE TABLE Condition as it would be with Description TEXT UNIQUE, the
\* declaration of the earlier Conditions table.
CREATE_TABLE_Condition_nullable_description ==
    [table |-> "Condition",
     columns |-> << Col("Name", TRUE, TRUE), Col("Description", FALSE, TRUE) >>]

CREATE_TABLE_Condition ==
    [table |-> "Condition",
     columns |-> << Col("Name", TRUE, TRUE), Col("Description", TRUE, TRUE) >>]

\* CREATE TABLE Author as it would be with Last NOT NULL as First is.
CREATE_TABLE_Author_last_not_null ==
    [table |-> "Author",
     columns |-> << Col("Prefix", FALSE, FALSE), Col("First", TRUE, FALSE),
                    Col("Middle", FALSE, FALSE), Col("Last", TRUE, FALSE),
                    Col("Suffix", FALSE, FALSE) >>]

CREATE_TABLE_Author ==
    [table |-> "Author",
     columns |-> << Col("Prefix", FALSE, FALSE), Col("First", TRUE, FALSE),
                    Col("Middle", FALSE, FALSE), Col("Last", FALSE, FALSE),
                    Col("Suffix", FALSE, FALSE) >>]

\* A column declared INTEGER NOT NULL with FOREIGN KEY ... REFERENCES ref(ID).
FkCol(n, nn, ref) ==
    [name |-> n, notnull |-> nn, unique |-> FALSE, type |-> "INTEGER",
     references |-> ref]

\* CREATE TABLE TitleAuthor of create_table_titleauthor, which the tests call
\* and database.py does not hold: the join of one title with one author as
\* the data model gives it, (TitleID, AuthorID) UNIQUE as a pair.
CREATE_TABLE_TitleAuthor ==
    [table |-> "TitleAuthor",
     columns |-> << FkCol("TitleID", TRUE, "Title"),
                    FkCol("AuthorID", TRUE, "Author") >>,
     unique |-> << "TitleID", "AuthorID" >>]

\* The CREATE TABLE statements of the four other tables of the data model
\* that database.py has no function for, with the column names of the
\* tests: Work, Publication, Location and Book.
CREATE_TABLE_Work ==
    [table |-> "Work",
     columns |-> << FkCol("TitleAuthorID", TRUE, "TitleAuthor"),
                    FkCol("GenreID", FALSE, "Genre") >>,
     unique |-> << "TitleAuthorID", "GenreID" >>]

CREATE_TABLE_Publication ==
    [table |-> "Publication",
     columns |-> << FkCol("WorkID", TRUE, "Work"),
                    FkCol("FormatID", TRUE, "Format"),
                    FkCol("PublisherID", FALSE, "Publisher"),
                    Col("ISBN", FALSE, TRUE) >>,
     unique |-> << "WorkID", "FormatID", "PublisherID" >>]

CREATE_TABLE_Location ==
    [table |-> "Location",
     columns |-> << Col("Name", TRUE, TRUE), Col("Description", FALSE, FALSE) >>,
     unique |-> << >>]

CREATE_TABLE_Book ==
    [table |-> "Book",
     columns |-> << FkCol("PublicationID", TRUE, "Publication"),
                    FkCol("ConditionID", FALSE, "Condition"),
                    FkCol("LocationID", FALSE, "Location") >>,
     unique |-> << >>]

\* The INSERT statement of each insert_* function: the table it names and its
\* column list; the i-th "?" is bound to the i-th column.
\* INSERT of insert_title as it would be had it kept the table of
\* insert_genre.
INSERT_INTO_Title_into_genre == [table |-> "Genre", columns |-> << "Name" >>]

INSERT_INTO_Title == [table |-> "Title", columns |-> << "Name" >>]

INSERT_INTO_Genre == [table |-> "Genre", columns |-> << "Name" >>]

INSERT_INTO_Format == [table |-> "Format", columns |-> << "Name" >>]

\* INSERT of insert_publisher as it would be had it kept the table of
\* insert_format, from which it is copied.
INSERT_INTO_Publisher_into_format ==
    [table |-> "Format", columns |-> << "Name" >>]

INSERT_INTO_Publisher == [table |-> "Publisher", columns |-> << "Name" >>]

INSERT_INTO_Condition ==
    [table |-> "Condition", columns |-> << "Name", "Description" >>]

\* INSERT of insert_author as it would be with First and Prefix exchanged in
\* its column list.
INSERT_INTO_Author_first_before_prefix ==
    [table |-> "Author",
     columns |-> << "First", "Prefix", "Middle", "Last", "Suffix" >>]

INSERT_INTO_Author ==
    [table |-> "Author",
     columns |-> << "Prefix", "First", "Middle", "Last", "Suffix" >>]

\* INSERT of insert_titleauthor, written after its six siblings.
INSERT_INTO_TitleAuthor ==
    [table |-> "TitleAuthor", columns |-> << "TitleID", "AuthorID" >>]

INSERT_INTO_Work ==
    [table |-> "Work", columns |-> << "TitleAuthorID", "GenreID" >>]

INSERT_INTO_Publication ==
    [table |-> "Publication",
     columns |-> << "WorkID", "FormatID", "PublisherID", "ISBN" >>]

INSERT_INTO_Location ==
    [table |-> "Location", columns |-> << "Name", "Description" >>]

INSERT_INTO_Book ==
    [table |-> "Book",
     columns |-> << "PublicationID", "ConditionID", "LocationID" >>]

Entities == {"Title", "Genre", "Format", "Publisher", "Condition", "Author"}

\* The tables of the data model that database.py has no function for.
DependentEntities == {"TitleAuthor", "Work", "Publication", "Location", "Book"}

Tables == Entities \cup DependentEntities

CreateFunctions ==
    {"create_table_title", "create_table_genre", "create_table_format",
     "create_table_publisher", "create_table_condition",
     "create_table_author"}

InsertFunctions ==
    {"insert_title", "insert_genre", "insert_format", "insert_publisher",
     "insert_condition", "insert_author"}

DependentCreateFunctions ==
    {"create_table_titleauthor", "create_table_work",
     "create_table_publication", "create_table_location",
     "create_table_book"}

DependentInsertFunctions ==
    {"insert_titleauthor", "insert_work", "insert_publication",
     "insert_location", "insert_book"}

\* The order the tests' setUp creates tables in: the table under test, then
\* the tables it refers to.
CreateOrder_dependent_first ==
    << "create_table_titleauthor", "create_table_title",
       "create_table_author", "create_table_genre", "create_table_format",
       "create_table_publisher", "create_table_condition",
       "create_table_location", "create_table_work",
       "create_table_publication", "create_table_book" >>

\* The order in which the operation that creates the whole schema calls the
\* create_table_* functions.
CreateOrder ==
    << "create_table_title", "create_table_author", "create_table_genre",
       "create_table_format", "create_table_publisher",
       "create_table_condition", "create_table_location",
       "create_table_titleauthor", "create_table_work",
       "create_table_publication", "create_table_book" >>

\* The statement each wrapped function hands to cursor.execute.
Statement(f) ==
    CASE f = "create_table_title" -> CREATE_TABLE_Title
      [] f = "create_table_genre" -> CREATE_TABLE_Genre
      [] f = "create_table_format" -> CREATE_TABLE_Format
      [] f = "create_table_publisher" -> CREATE_TABLE_Publisher
      [] f = "create_table_condition" -> CREATE_TABLE_Condition
      [] f = "create_table_author" -> CREATE_TABLE_Author
      [] f = "insert_title" -> INSERT_INTO_Title
      [] f = "insert_genre" -> INSERT_INTO_Genre
      [] f = "insert_format" -> INSERT_INTO_Format
      [] f = "insert_publisher" -> INSERT_INTO_Publisher
      [] f = "insert_condition" -> INSERT_INTO_Condition
      [] f = "insert_author" -> INSERT_INTO_Author
      [] f = "create_table_titleauthor" -> CREATE_TABLE_TitleAuthor
      [] f = "insert_titleauthor" -> INSERT_INTO_TitleAuthor
      [] f = "create_table_work" -> CREATE_TABLE_Work
      [] f = "create_table_publication" -> CREATE_TABLE_Publication
      [] f = "create_table_location" -> CREATE_TABLE_Location
      [] f = "create_table_book" -> CREATE_TABLE_Book
      [] f = "insert_work" -> INSERT_INTO_Work
      [] f = "insert_publication" -> INSERT_INTO_Publication
      [] f = "insert_location" -> INSERT_INTO_Location
      [] f = "insert_book" -> INSERT_INTO_Book

\* The declaration under which table t exists in the store: the columns of
\* the CREATE TABLE statement that names it.
Schema(t) ==
    LET made == {f \in CreateFunctions \cup DependentCreateFunctions :
                    Statement(f).table = t}
    IN IF made = {} THEN <<>>
       ELSE Statement(CHOOSE f \in made : TRUE).columns

\* The columns that table t declares UNIQUE as a group, <<>> when it declares
\* no such group.
UniqueTogether(t) ==
    LET made == {f \in DependentCreateFunctions : Statement(f).table = t}
    IN IF made = {} THEN <<>>
       ELSE Statement(CHOOSE f \in made : TRUE).unique

(* ---------------------------------------------------------------- engine *)

\* A column declared TEXT stores an integer as its decimal text.
Affinity(v) == IF v[1] = "int" THEN Text(v[2]) ELSE v

\* The integers the model writes in decimal, and the number each one is.
Decimal(s) ==
    CASE s = "1" -> 1
      [] s = "2" -> 2
      [] s = "3" -> 3
      [] s = "7" -> 7
      [] s = "9" -> 9
      [] OTHER -> 0

\* A column declared INTEGER stores an integer as it is and a text that
\* reads as an integer as that integer; a column declared TEXT converts by
\* Affinity.
ColumnAffinity(col, v) ==
    IF "type" \in DOMAIN col
    THEN IF v[1] = "text" /\ Decimal(v[2]) # 0 THEN Integer(v[2]) ELSE v
    ELSE Affinity(v)

\* Ids as they would be if counted from 0.
NextId_from_zero(tbl) == Len(tbl)

\* Ids as they would be if the store left one id unused before each row.
NextId_after_gap(tbl) == Len(tbl) + 2

\* ID INTEGER PRIMARY KEY, left out of the INSERT: the store assigns the
\* largest ID of the table plus one, 1 for an empty table.
NextId(tbl) ==
    IF tbl = <<>> THEN 1
    ELSE 1 + (CHOOSE m \in {tbl[i].id : i \in 1..Len(tbl)} :
                \A i \in 1..Len(tbl) : tbl[i].id <= m)

\* Position of column name n in the column list cols, 0 when it is not there.
IndexOf(cols, n) ==
    IF \E i \in 1..Len(cols) : cols[i] = n
    THEN CHOOSE i \in 1..Len(cols) : cols[i] = n
    ELSE 0

\* The values of the row an INSERT with column list cols and bindings args
\* builds for a table declared as schema: a column the statement names takes
\* its binding, converted by the column's affinity; any other column is NULL.
RowValues(schema, cols, args) ==
    [c \in 1..Len(schema) |->
        IF IndexOf(cols, schema[c].name) = 0 THEN NULL
        ELSE ColumnAffinity(schema[c], args[IndexOf(cols, schema[c].name)])]

\* The NOT NULL check as it would be if every column were declared NOT NULL.
NotNullFails_every_column(schema, vals) ==
    \E c \in 1..Len(schema) : vals[c] = NULL

NotNullFails(schema, vals) ==
    \E c \in 1..Len(schema) : schema[c].notnull /\ vals[c] = NULL

UniqueFails(schema, vals, tbl) ==
    \E c \in 1..Len(schema) :
        /\ schema[c].unique
        /\ vals[c] # NULL
        /\ \E i \in 1..Len(tbl) : tbl[i].vals[c] = vals[c]

\* UNIQUE (c1, c2, ...): some row of tbl agrees with vals on every column of
\* the group, none of them NULL.
UniqueTogetherFails(schema, group, vals, tbl) ==
    /\ group # <<>>
    /\ LET at == {c \in 1..Len(schema) :
                    \E g \in 1..Len(group) : schema[c].name = group[g]}
       IN /\ \A c \in at : vals[c] # NULL
          /\ \E i \in 1..Len(tbl) : \A c \in at : tbl[i].vals[c] = vals[c]

\* FOREIGN KEY (c) REFERENCES ref(ID), checked when the statement ends and
\* only on a connection with foreign_keys on: a non-NULL value of c that is
\* the ID of no row of ref fails; a ref that is not a table of the store is
\* an OperationalError.
ForeignKeyError(foreign_keys, schema, vals, present, stored) ==
    LET fks == {c \in 1..Len(schema) :
                   "references" \in DOMAIN schema[c] /\ vals[c] # NULL}
    IN IF ~foreign_keys THEN "none"
       ELSE IF \E c \in fks : ~present[schema[c].references]
       THEN "OperationalError"
       ELSE IF \E c \in fks :
                 \A i \in 1..Len(stored[schema[c].references]) :
                    stored[schema[c].references][i].id # Decimal(vals[c][2])
       THEN "IntegrityError: FOREIGN KEY"
       ELSE "none"

\* cursor.execute of INSERT as it would be if the statement were run whether
\* or not the store has the table.
ExecuteInsert_without_table_check(present, t, schema, cols, args, tbl) ==
    LET vals == RowValues(schema, cols, args) IN
    CASE Len(args) # Len(cols) ->
            [error |-> "ProgrammingError", row |-> NoRow]
      [] Len(args) = Len(cols) /\ (\E i \in 1..Len(args) : args[i] = Big) ->
            [error |-> "OverflowError", row |-> NoRow]
      [] OTHER ->
            IF NotNullFails(schema, vals)
            THEN [error |-> "IntegrityError: NOT NULL", row |-> NoRow]
            ELSE IF UniqueFails(schema, vals, tbl)
            THEN [error |-> "IntegrityError: UNIQUE", row |-> NoRow]
            ELSE [error |-> "none",
                  row |-> [table |-> t, id |-> NextId(tbl), vals |-> vals]]

\* cursor.execute of INSERT as it would be if missing bindings were taken as
\* NULL and bindings beyond the last "?" were dropped.
ExecuteInsert_any_number_of_values(present, t, schema, cols, args, tbl) ==
    LET fitted == [i \in 1..Len(cols) |->
                      IF i <= Len(args) THEN args[i] ELSE NULL]
        vals == RowValues(schema, cols, fitted)
    IN
    CASE ~present ->
            [error |-> "OperationalError", row |-> NoRow]
      [] present /\ (\E i \in 1..Len(fitted) : fitted[i] = Big) ->
            [error |-> "OverflowError", row |-> NoRow]
      [] OTHER ->
            IF NotNullFails(schema, vals)
            THEN [error |-> "IntegrityError: NOT NULL", row |-> NoRow]
            ELSE IF UniqueFails(schema, vals, tbl)
            THEN [error |-> "IntegrityError: UNIQUE", row |-> NoRow]
            ELSE [error |-> "none",
                  row |-> [table |-> t, id |-> NextId(tbl), vals |-> vals]]

\* cursor.execute of an INSERT statement: the exception it raises ("none"
\* when it raises nothing) and the row it leaves uncommitted in the
\* connection's transaction.
ExecuteInsert(present, t, schema, cols, args, tbl) ==
    LET vals == RowValues(schema, cols, args) IN
    CASE ~present ->
            [error |-> "OperationalError", row |-> NoRow]
      [] present /\ Len(args) # Len(cols) ->
            [error |-> "ProgrammingError", row |-> NoRow]
      [] present /\ Len(args) = Len(cols)
                 /\ (\E i \in 1..Len(args) : args[i] = Big) ->
            [error |-> "OverflowError", row |-> NoRow]
      [] OTHER ->
            IF NotNullFails(schema, vals)
            THEN [error |-> "IntegrityError: NOT NULL", row |-> NoRow]
            ELSE IF \/ UniqueFails(schema, vals, tbl)
                    \/ UniqueTogetherFails(schema, UniqueTogether(t), vals, tbl)
            THEN [error |-> "IntegrityError: UNIQUE", row |-> NoRow]
            ELSE [error |-> "none",
                  row |-> [table |-> t, id |-> NextId(tbl), vals |-> vals]]

\* cursor.execute of CREATE TABLE IF NOT EXISTS, which raises nothing.
ExecuteCreate_if_not_exists(present) == "none"

\* cursor.execute of a CREATE TABLE statement.
ExecuteCreate(present) ==
    IF present THEN "OperationalError" ELSE "none"

\* The handler as it would be with except sqlite3.IntegrityError.
IsSqlite3Error_integrity_only(e) ==
    e \in {"IntegrityError: NOT NULL", "IntegrityError: UNIQUE"}

\* except sqlite3.Error: the exceptions the wrapper's handler catches.
IsSqlite3Error(e) ==
    e \in {"OperationalError", "ProgrammingError",
           "IntegrityError: NOT NULL", "IntegrityError: UNIQUE",
           "IntegrityError: FOREIGN KEY"}

(* ------------------------------------------------- the caller's own reads *)

\* db_required_tables: the table names the caller's reads accept.
db_required_tables ==
    {"Title", "Author", "Genre", "TitleAuthor", "Work", "Format",
     "Publisher", "Publication", "Condition", "Location", "Book"}

\* validate_cursor: the exception raised when there is no cursor.
validate_cursor(c) ==
    IF c = "none" THEN "NoDatabaseConnectionError" ELSE "none"

\* validate_table_name: the exception raised when the name is not in the
\* given names.
validate_table_name(table_name, db_schema) ==
    IF table_name \notin db_schema THEN "DatabaseTableError" ELSE "none"

\* SELECT name FROM sqlite_master WHERE type='table' ...: the names of the
\* tables of the store.  Their order in the list is left out.
SELECT_name_FROM_sqlite_master(present) ==
    {t \in DOMAIN present : present[t]}

\* PRAGMA table_info(t), each row[1]: the column names of the table as it
\* was declared, ID first.
PRAGMA_table_info_no_id(schema) ==
    [c \in 1..Len(schema) |-> schema[c].name]

PRAGMA_table_info(schema) ==
    <<"ID">> \o [c \in 1..Len(schema) |-> schema[c].name]

\* SELECT ID FROM t ORDER BY ID DESC
SELECT_ID_ORDER_BY_ID_DESC(tbl) ==
    LET ids == {tbl[i].id : i \in 1..Len(tbl)}
        n == Cardinality(ids)
    IN IF n = 0 THEN <<>>
       ELSE CHOOSE q \in [1..n -> ids] :
               \A i, j \in 1..n : i < j => q[i] > q[j]

\* SELECT ID FROM t ORDER BY ID: one ID per row, smallest first.
SELECT_ID_ORDER_BY_ID(tbl) ==
    LET ids == {tbl[i].id : i \in 1..Len(tbl)}
        n == Cardinality(ids)
    IN IF n = 0 THEN <<>>
       ELSE CHOOSE q \in [1..n -> ids] :
               \A i, j \in 1..n : i < j => q[i] < q[j]

\* The outcome of get_database_table_names: the exception it raises and the
\* value it returns.
GetDatabaseTableNames(c, present) ==
    IF validate_cursor(c) # "none"
    THEN [error |-> validate_cursor(c), result |-> NoResult]
    ELSE [error |-> "none",
          result |-> [type |-> "names",
                      value |-> SELECT_name_FROM_sqlite_master(present)]]

\* get_table_column_names as it would be if it validated the cursor before
\* the name, as get_valid_record_id does.
GetTableColumnNames_cursor_first(c, table_name, present) ==
    LET named == validate_table_name(table_name, db_required_tables)
        names == GetDatabaseTableNames(c, present)
    IN IF names.error # "none" THEN names
       ELSE IF named # "none" THEN [error |-> named, result |-> NoResult]
       ELSE IF table_name \notin names.result.value
       THEN [error |-> "none", result |-> [type |-> "list", value |-> <<>>]]
       ELSE [error |-> "none",
             result |-> [type |-> "list",
                         value |-> PRAGMA_table_info(Schema(table_name))]]

\* The outcome of get_table_column_names(table_name): the name is validated
\* first; the cursor is validated by get_database_table_names.
GetTableColumnNames(c, table_name, present) ==
    LET named == validate_table_name(table_name, db_required_tables)
        names == GetDatabaseTableNames(c, present)
    IN IF named # "none" THEN [error |-> named, result |-> NoResult]
       ELSE IF names.error # "none" THEN names
       ELSE IF table_name \notin names.result.value
       THEN [error |-> "none", result |-> [type |-> "list", value |-> <<>>]]
       ELSE [error |-> "none",
             result |-> [type |-> "list",
                         value |-> PRAGMA_table_info(Schema(table_name))]]

\* The outcome of get_valid_record_id(table_name): the cursor is validated
\* first, then the name against db_required_tables, then against the tables
\* of the store.
GetValidRecordId(c, table_name, present, stored) ==
    LET named == validate_table_name(table_name, db_required_tables)
        names == GetDatabaseTableNames(c, present)
    IN IF validate_cursor(c) # "none"
       THEN [error |-> validate_cursor(c), result |-> NoResult]
       ELSE IF named # "none" THEN [error |-> named, result |-> NoResult]
       ELSE IF validate_table_name(table_name, names.result.value) # "none"
       THEN [error |-> "DatabaseTableError", result |-> NoResult]
       ELSE [error |-> "none",
             result |-> [type |-> "list",
                         value |-> SELECT_ID_ORDER_BY_ID(stored[table_name])]]

(* ----------------------------------------------------------------- state *)

VARIABLES
    tables,      \* the store file: tables[e] is TRUE when table e is present
    rows,        \* the store file: rows[e] is the committed rows of table e
    pc,          \* the statement of db_connection.wrapper that runs next
    call,        \* the wrapped function being called and its arguments
    connection,  \* the connection the running call opened
    cursor,      \* the cursor the running call opened
    error,       \* the exception in flight in the running call
    log,         \* the methods the running call has invoked so far
    before,      \* tables and rows as they were when the running call began
    unclosed,    \* TRUE once a call has returned leaving its connection open
    cls_cursor,  \* the cursor of the caller's own connection to the store
    result       \* what the caller's read in progress returns

vars == << tables, rows, pc, call, connection, cursor, error, log, before,
           unclosed, cls_cursor, result >>

NoConnection == [state |-> "none", foreign_keys |-> FALSE, row |-> NoRow]

TotalRows ==
    Len(rows["Title"]) + Len(rows["Genre"]) + Len(rows["Format"])
    + Len(rows["Publisher"]) + Len(rows["Condition"]) + Len(rows["Author"])
    + Len(rows["TitleAuthor"]) + Len(rows["Work"]) + Len(rows["Publication"])
    + Len(rows["Location"]) + Len(rows["Book"])

\* A new store file: no table; no call running.
Init ==
    /\ tables = [e \in Tables |-> FALSE]
    /\ rows = [e \in Tables |-> <<>>]
    /\ pc = "idle"
    /\ call = NoCall
    /\ connection = NoConnection
    /\ cursor = "none"
    /\ error = "none"
    /\ log = <<>>
    /\ before = [tables |-> [e \in Tables |-> FALSE],
                 rows |-> [e \in Tables |-> <<>>]]
    /\ unclosed = FALSE
    /\ cls_cursor = "none"
    /\ result = NoResult

(* ---------------------------------------------------------------- inputs *)

\* Argument tuples tried on the one-column tables: every value, and a wrong
\* number of values.
NameArgs == {<<v>> : v \in Values} \cup {<<>>, <<Text("a"), Text("7")>>}

ConditionArgs ==
    {<<n, d>> : n \in {NULL, Text("a"), Integer("7")},
                d \in {NULL, Text("a"), Integer("7")}}
    \cup {<<Text("a")>>, <<Big, Text("a")>>}

AuthorArgs ==
    { <<Text("a"), Text("7"), Text("b"), Text("c"), Text("d")>>,
      <<NULL, Text("a"), NULL, NULL, NULL>>,
      <<Text("a"), NULL, Text("b"), Text("c"), Text("d")>>,
      <<NULL, Integer("7"), Text("b"), NULL, Text("d")>>,
      <<Text("a"), Text("7"), Text("b"), Text("c")>> }

\* (Prefix, First, Middle, Last, Suffix) with every choice of which of the
\* five are None.
AuthorCombinations ==
    {<<p, f, m, l, x>> : p \in {NULL, Text("a")}, f \in {NULL, Text("b")},
                         m \in {NULL, Text("c")}, l \in {NULL, Text("d")},
                         x \in {NULL, Text("e")}}

\* (TitleID, AuthorID): NULL, the ID of the first row of the referenced
\* table, and an ID no row has; and one value too few.
TitleAuthorArgs ==
    {<<t, a>> : t \in {NULL, Integer("1"), Integer("9")},
                a \in {NULL, Integer("1"), Integer("9")}}
    \cup {<<Integer("1")>>}

\* One row for each table that Work, Publication and Book lead to, and rows
\* of these three with NULL in the foreign keys that may be NULL.
RelatedInsertFunctions ==
    {"insert_title", "insert_author", "insert_titleauthor", "insert_format",
     "insert_work", "insert_publication", "insert_book"}

RelatedArgs(f) ==
    CASE f = "insert_title" -> {<<Text("a")>>}
      [] f = "insert_format" -> {<<Text("a")>>}
      [] f = "insert_author" -> {<<NULL, Text("a"), NULL, NULL, NULL>>}
      [] f = "insert_titleauthor" -> {<<Integer("1"), Integer("1")>>}
      [] f = "insert_work" ->
            {<<Integer("1"), NULL>>, <<NULL, NULL>>}
      [] f = "insert_publication" ->
            {<<Integer("1"), Integer("1"), NULL, NULL>>,
             <<Integer("1"), NULL, NULL, NULL>>}
      [] f = "insert_book" ->
            {<<Integer("1"), NULL, NULL>>, <<NULL, NULL, NULL>>}

Args(f) ==
    CASE f = "insert_condition" -> ConditionArgs
      [] f = "insert_author" -> AuthorArgs
      [] f = "insert_titleauthor" -> TitleAuthorArgs
      [] OTHER -> NameArgs

(* --------------------------------------------------------- db_connection *)

\* wrapper, up to the try statement: open a connection to the store file and
\* a cursor on it.  A new connection has foreign_keys off, and nothing in
\* wrapper or in the wrapped functions turns it on.
wrapper(f, args) ==
    /\ pc = "idle"
    /\ pc' = "execute"
    /\ call' = [f |-> f, args |-> args]
    /\ connection' = [state |-> "open", foreign_keys |-> FALSE, row |-> NoRow]
    /\ cursor' = "open"
    /\ UNCHANGED << tables, rows, error, log, before, unclosed,
                    cls_cursor, result >>

\* query_func as it would be if every create_table_* executed DROP TABLE IF
\* EXISTS before its CREATE TABLE: the table is made anew, without rows.
query_func_drop_first ==
    /\ pc = "execute"
    /\ LET stmt == Statement(call.f)
           t == stmt.table
           creates == call.f \in CreateFunctions \cup DependentCreateFunctions
           ins == ExecuteInsert(tables[t], t, Schema(t), stmt.columns,
                                call.args, rows[t])
           out == IF creates THEN [error |-> "none", row |-> NoRow] ELSE ins
       IN /\ error' = out.error
          /\ connection' = [connection EXCEPT !.row = out.row]
          /\ tables' = IF creates THEN [tables EXCEPT ![t] = TRUE] ELSE tables
          /\ rows' = IF creates THEN [rows EXCEPT ![t] = <<>>] ELSE rows
          /\ pc' = IF IsSqlite3Error(out.error) THEN "rollback" ELSE "commit"
    /\ log' = Append(log, "execute")
    /\ UNCHANGED << call, cursor, before, unclosed, cls_cursor, result >>

\* result = query_func(cursor, *args): the one statement of the wrapped
\* function.  CREATE TABLE takes effect in the store at once; INSERT leaves
\* its row in the connection's transaction.  A sqlite3.Error goes to the
\* except clause, any other outcome to the finally clause.
query_func ==
    /\ pc = "execute"
    /\ LET stmt == Statement(call.f)
           t == stmt.table
           creates == call.f \in CreateFunctions \cup DependentCreateFunctions
           ins == ExecuteInsert(tables[t], t, Schema(t), stmt.columns,
                                call.args, rows[t])
           fk == IF creates \/ ins.error # "none" THEN "none"
                 ELSE ForeignKeyError(connection.foreign_keys, Schema(t),
                                      ins.row.vals, tables, rows)
           out == IF creates
                  THEN [error |-> ExecuteCreate(tables[t]), row |-> NoRow]
                  ELSE IF fk # "none" THEN [error |-> fk, row |-> NoRow]
                  ELSE ins
       IN /\ error' = out.error
          /\ connection' = [connection EXCEPT !.row = out.row]
          /\ tables' = IF creates /\ out.error = "none"
                       THEN [tables EXCEPT ![t] = TRUE]
                       ELSE tables
          /\ pc' = IF IsSqlite3Error(out.error) THEN "rollback" ELSE "commit"
    /\ log' = Append(log, "execute")
    /\ UNCHANGED << rows, call, cursor, before, unclosed, cls_cursor, result >>

\* The except clause as it would be if connection.commit() were in an else
\* clause of the try statement: after a rollback the cursor is closed next.
rollback_skips_commit ==
    /\ pc = "rollback"
    /\ connection' = [connection EXCEPT !.row = NoRow]
    /\ log' = Append(log, "rollback")
    /\ pc' = "cursor.close"
    /\ UNCHANGED << tables, rows, call, cursor, error, before, unclosed,
                    cls_cursor, result >>

\* connection.rollback() in the except clause; raise error leaves the
\* exception in flight and the finally clause runs.
rollback ==
    /\ pc = "rollback"
    /\ connection' = [connection EXCEPT !.row = NoRow]
    /\ log' = Append(log, "rollback")
    /\ pc' = "commit"
    /\ UNCHANGED << tables, rows, call, cursor, error, before, unclosed,
                    cls_cursor, result >>

\* The finally clause as it would be without connection.commit(): the
\* transaction is discarded when the connection closes.
commit_left_out ==
    /\ pc = "commit"
    /\ connection' = [connection EXCEPT !.row = NoRow]
    /\ pc' = "cursor.close"
    /\ UNCHANGED << tables, rows, call, cursor, error, log, before, unclosed,
                    cls_cursor, result >>

\* connection.commit(), first statement of the finally clause: the row of
\* the transaction, if any, becomes a row of the store.
commit ==
    /\ pc = "commit"
    /\ rows' = IF connection.row = NoRow THEN rows
               ELSE [rows EXCEPT ![connection.row.table] =
                        Append(@, [id |-> connection.row.id,
                                   vals |-> connection.row.vals])]
    /\ connection' = [connection EXCEPT !.row = NoRow]
    /\ log' = Append(log, "commit")
    /\ pc' = "cursor.close"
    /\ UNCHANGED << tables, call, cursor, error, before, unclosed,
                    cls_cursor, result >>

\* connection.commit() raising (the store cannot write the transaction, which
\* is discarded): the exception leaves the finally clause at once, past
\* cursor.close() and connection.close().
commit_raises ==
    /\ pc = "commit"
    /\ connection.row # NoRow
    /\ connection' = [connection EXCEPT !.row = NoRow]
    /\ error' = "OperationalError"
    /\ log' = Append(log, "commit")
    /\ pc' = "exit"
    /\ UNCHANGED << tables, rows, call, cursor, before, unclosed,
                    cls_cursor, result >>

\* cursor.close()
cursor_close ==
    /\ pc = "cursor.close"
    /\ cursor' = "closed"
    /\ log' = Append(log, "cursor.close")
    /\ pc' = "connection.close"
    /\ UNCHANGED << tables, rows, call, connection, error, before, unclosed,
                    cls_cursor, result >>

\* connection.close()
connection_close ==
    /\ pc = "connection.close"
    /\ connection' = [connection EXCEPT !.state = "closed"]
    /\ log' = Append(log, "connection.close")
    /\ pc' = "exit"
    /\ UNCHANGED << tables, rows, call, cursor, error, before, unclosed,
                    cls_cursor, result >>

\* return result, or the exception in flight reaches the caller.  In the
\* state with pc = "exit" the caller sees the outcome of the call.
exit ==
    /\ pc = "exit"
    /\ pc' = "idle"
    /\ unclosed' = (unclosed \/ connection.state = "open")
    /\ call' = NoCall
    /\ connection' = NoConnection
    /\ cursor' = "none"
    /\ error' = "none"
    /\ log' = <<>>
    /\ before' = [tables |-> tables, rows |-> rows]
    /\ UNCHANGED << tables, rows, cls_cursor, result >>

\* A whole call f(db_path, *args) of a wrapped function on the store with
\* tables tbls and rows rws, commit not failing: the exception that reaches
\* the caller and the store the call leaves.
Call(tbls, rws, f, args) ==
    LET stmt == Statement(f)
        t == stmt.table
        creates == f \in CreateFunctions \cup DependentCreateFunctions
        ins == ExecuteInsert(tbls[t], t, Schema(t), stmt.columns, args,
                             rws[t])
        raised == IF creates THEN ExecuteCreate(tbls[t]) ELSE ins.error
    IN [error |-> raised,
        tables |-> IF creates /\ raised = "none"
                   THEN [tbls EXCEPT ![t] = TRUE]
                   ELSE tbls,
        rows |-> IF ~creates /\ raised = "none"
                 THEN [rws EXCEPT ![t] = Append(@, [id |-> ins.row.id,
                                                    vals |-> ins.row.vals])]
                 ELSE rws]

(* ------------------------------------------------- the wrapped functions *)

create_table_title == wrapper("create_table_title", <<>>)

create_table_genre == wrapper("create_table_genre", <<>>)

create_table_format == wrapper("create_table_format", <<>>)

create_table_publisher == wrapper("create_table_publisher", <<>>)

create_table_condition == wrapper("create_table_condition", <<>>)

create_table_author == wrapper("create_table_author", <<>>)

\* insert_*(db_path, *args), for each tuple of arguments tried, while the
\* store has room for one more row.
insert(f) ==
    /\ TotalRows < MaxRows
    /\ \E args \in Args(f) : wrapper(f, args)

insert_title == insert("insert_title")

insert_genre == insert("insert_genre")

insert_format == insert("insert_format")

insert_publisher == insert("insert_publisher")

insert_condition == insert("insert_condition")

insert_author == insert("insert_author")

\* insert_author(db_path, prefix, first, middle, last, suffix) for every
\* choice of the arguments that are None.
insert_author_combinations ==
    /\ TotalRows < MaxRows
    /\ \E args \in AuthorCombinations : wrapper("insert_author", args)

\* The two functions on TitleAuthor, wrapped by db_connection as the six
\* above are.
create_table_titleauthor == wrapper("create_table_titleauthor", <<>>)

insert_titleauthor == insert("insert_titleauthor")

(* ------------------------------------------------------ the whole schema *)

\* The operation that creates the whole schema, call by call: its next call
\* is the first function of CreateOrder whose table the store has not.
\* Begun again on a store that has them all, its first call finds its table
\* there.
create_database ==
    \/ \E k \in 1..Len(CreateOrder) :
          /\ \A j \in 1..(k - 1) : tables[Statement(CreateOrder[j]).table]
          /\ ~tables[Statement(CreateOrder[k]).table]
          /\ wrapper(CreateOrder[k], <<>>)
    \/ /\ \A j \in 1..Len(CreateOrder) : tables[Statement(CreateOrder[j]).table]
       /\ wrapper(CreateOrder[1], <<>>)

\* insert_*(db_path, *args) along the foreign keys, while the table has
\* room.
insert_related ==
    \E f \in RelatedInsertFunctions :
        /\ Len(rows[Statement(f).table]) < MaxRowsEach
        /\ \E args \in RelatedArgs(f) : wrapper(f, args)

(* ------------------------------------------------------------ the caller *)

\* The table names the caller's reads are tried with: the accepted ones and
\* one that is not accepted.
TableNames == db_required_tables \cup {"Books"}

\* open_database_connection: the caller connects to the store and keeps the
\* connection and a cursor on it.
open_database_connection ==
    /\ pc = "idle"
    /\ cls_cursor' = "open"
    /\ UNCHANGED << tables, rows, pc, call, connection, cursor, error, log,
                    before, unclosed, result >>

\* close_database_connection
close_database_connection ==
    /\ pc = "idle"
    /\ cls_cursor' = "none"
    /\ UNCHANGED << tables, rows, pc, call, connection, cursor, error, log,
                    before, unclosed, result >>

\* A read of the caller runs to its return or to its exception; in the state
\* with pc = "read" the caller has its outcome.
read(f, args, out) ==
    /\ pc = "idle"
    /\ pc' = "read"
    /\ call' = [f |-> f, args |-> args]
    /\ error' = out.error
    /\ result' = out.result
    /\ UNCHANGED << tables, rows, connection, cursor, log, before, unclosed,
                    cls_cursor >>

\* get_database_table_names as it would be with the DROP TABLE loop of
\* remove_all_database_tables, which follows it in the class, in its body.
get_database_table_names_and_drop ==
    /\ pc = "idle"
    /\ pc' = "read"
    /\ call' = [f |-> "get_database_table_names", args |-> <<>>]
    /\ error' = GetDatabaseTableNames(cls_cursor, tables).error
    /\ result' = GetDatabaseTableNames(cls_cursor, tables).result
    /\ tables' = IF cls_cursor = "none" THEN tables
                 ELSE [t \in Tables |-> FALSE]
    /\ rows' = IF cls_cursor = "none" THEN rows ELSE [t \in Tables |-> <<>>]
    /\ UNCHANGED << connection, cursor, log, before, unclosed, cls_cursor >>

get_database_table_names ==
    read("get_database_table_names", <<>>,
         GetDatabaseTableNames(cls_cursor, tables))

get_table_column_names ==
    \E table_name \in TableNames :
        read("get_table_column_names", <<table_name>>,
             GetTableColumnNames(cls_cursor, table_name, tables))

get_valid_record_id ==
    \E table_name \in TableNames :
        read("get_valid_record_id", <<table_name>>,
             GetValidRecordId(cls_cursor, table_name, tables, rows))

\* The caller goes on after a read.
read_returned ==
    /\ pc = "read"
    /\ pc' = "idle"
    /\ call' = NoCall
    /\ error' = "none"
    /\ result' = NoResult
    /\ UNCHANGED << tables, rows, connection, cursor, log, before, unclosed,
                    cls_cursor >>

(* -------------------------------------------------------- specifications *)

Next ==
    \/ create_table_title
    \/ create_table_genre
    \/ create_table_format
    \/ create_table_publisher
    \/ create_table_condition
    \/ create_table_author
    \/ insert_title
    \/ insert_genre
    \/ insert_format
    \/ insert_publisher
    \/ insert_condition
    \/ insert_author
    \/ query_func
    \/ rollback
    \/ commit
    \/ cursor_close
    \/ connection_close
    \/ exit

Spec == Init /\ [][Next]_vars

\* The same program on a store whose commit may fail.
NextIO == Next \/ commit_raises

SpecIO == Init /\ [][NextIO]_vars

\* Title, Author and the table that joins them.
NextDependent ==
    \/ create_table_title
    \/ create_table_author
    \/ create_table_titleauthor
    \/ insert_title
    \/ insert_author
    \/ insert_titleauthor
    \/ query_func
    \/ rollback
    \/ commit
    \/ cursor_close
    \/ connection_close
    \/ exit

SpecDependent == Init /\ [][NextDependent]_vars

\* The Author table alone, under every pattern of None arguments.
NextAuthor ==
    \/ create_table_author
    \/ insert_author_combinations
    \/ query_func
    \/ rollback
    \/ commit
    \/ cursor_close
    \/ connection_close
    \/ exit

SpecAuthor == Init /\ [][NextAuthor]_vars

\* A caller that keeps its own connection to the store and reads through
\* it between its calls of the functions on Title, Condition and Author.
NextCaller ==
    \/ create_table_title
    \/ create_table_condition
    \/ create_table_author
    \/ insert_title
    \/ insert_condition
    \/ insert_author
    \/ query_func
    \/ rollback
    \/ commit
    \/ cursor_close
    \/ connection_close
    \/ exit
    \/ open_database_connection
    \/ close_database_connection
    \/ get_database_table_names
    \/ get_table_column_names
    \/ get_valid_record_id
    \/ read_returned

SpecCaller == Init /\ [][NextCaller]_vars

\* Four tables that differ in their constraints: Title (no UNIQUE), Genre
\* (one UNIQUE column), Condition (two) and Author (nullable columns).
NextFour ==
    \/ create_table_title
    \/ create_table_genre
    \/ create_table_condition
    \/ create_table_author
    \/ insert_title
    \/ insert_genre
    \/ insert_condition
    \/ insert_author
    \/ query_func
    \/ rollback
    \/ commit
    \/ cursor_close
    \/ connection_close
    \/ exit

SpecFour == Init /\ [][NextFour]_vars

\* The whole schema created in order, and its columns read by a caller.
NextSchema ==
    \/ create_database
    \/ query_func
    \/ rollback
    \/ commit
    \/ cursor_close
    \/ connection_close
    \/ exit
    \/ open_database_connection
    \/ close_database_connection
    \/ get_table_column_names
    \/ read_returned

SpecSchema == Init /\ [][NextSchema]_vars

\* The whole schema created in order, and rows inserted along the foreign
\* keys from Title and Author to Book.
NextRelated ==
    \/ create_database
    \/ insert_related
    \/ query_func
    \/ rollback
    \/ commit
    \/ cursor_close
    \/ connection_close
    \/ exit

SpecRelated == Init /\ [][NextRelated]_vars

(* ---------------------------------------------------------------- claims *)

\* What the data model declares, stated apart from the statements above:
\* the table each insert function is for, and per table its number of non-ID
\* columns and the positions of the NOT NULL and of the UNIQUE ones.
EntityOf(f) ==
    CASE f = "insert_title" -> "Title"
      [] f = "insert_genre" -> "Genre"
      [] f = "insert_format" -> "Format"
      [] f = "insert_publisher" -> "Publisher"
      [] f = "insert_condition" -> "Condition"
      [] f = "insert_author" -> "Author"

Arity(e) ==
    CASE e = "Condition" -> 2
      [] e = "Author" -> 5
      [] OTHER -> 1

NotNullPositions(e) ==
    CASE e = "Condition" -> {1, 2}
      [] e = "Author" -> {2}
      [] OTHER -> {1}

UniquePositions(e) ==
    CASE e \in {"Genre", "Format", "Publisher"} -> {1}
      [] e = "Condition" -> {1, 2}
      [] OTHER -> {}

\* The state in which the caller has the outcome of an insert call.
InsertReturned == pc = "exit" /\ call.f \in InsertFunctions

\* The text a TEXT column holds for a supplied value.
Stored(v) == IF v[1] = "text" \/ v = NULL THEN v ELSE <<"text", v[2]>>

\* Row r keeps the constraints of table e among the rows old.
KeepsConstraints(e, r, old) ==
    /\ Len(r.vals) = Arity(e)
    /\ \A c \in NotNullPositions(e) : r.vals[c] # NULL
    /\ \A c \in UniquePositions(e) :
          \A i \in 1..Len(old) : old[i].vals[c] # r.vals[c]
    /\ \A i \in 1..Len(old) : old[i].id # r.id

\* C1: an insert call either succeeds and adds exactly one new row, which
\* keeps every NOT NULL and UNIQUE constraint of its table and has a new id,
\* or raises and leaves every table with the rows it had; and in no state of
\* a call does the store hold anything between those two.
C1_InsertAtomic ==
    /\ InsertReturned =>
          LET e == EntityOf(call.f) IN
          \/ /\ error = "none"
             /\ tables = before.tables
             /\ \A t \in Entities \ {e} : rows[t] = before.rows[t]
             /\ Len(rows[e]) = Len(before.rows[e]) + 1
             /\ SubSeq(rows[e], 1, Len(before.rows[e])) = before.rows[e]
             /\ KeepsConstraints(e, rows[e][Len(rows[e])], before.rows[e])
          \/ /\ error # "none"
             /\ tables = before.tables
             /\ rows = before.rows
    /\ call.f \in InsertFunctions =>
          \A t \in Entities :
             \/ rows[t] = before.rows[t]
             \/ /\ t = EntityOf(call.f)
                /\ Len(rows[t]) = Len(before.rows[t]) + 1
                /\ SubSeq(rows[t], 1, Len(before.rows[t])) = before.rows[t]
                /\ Len(rows[t][Len(rows[t])].vals) = Arity(t)

\* C1 witness: a rejected insert returns to a caller whose table already
\* holds a row that an earlier insert added.
C1_Witness ==
    /\ InsertReturned
    /\ error = "IntegrityError: UNIQUE"
    /\ Len(rows[EntityOf(call.f)]) = 1

NoTwoShare(e, c) ==
    \A i, j \in 1..Len(rows[e]) :
        i # j => rows[e][i].vals[c] # rows[e][j].vals[c]

\* C2: in every state no two rows of Genre, of Format, of Publisher or of
\* Condition share a Name, and no two rows of Condition share a Description.
C2_UniqueColumns ==
    /\ NoTwoShare("Genre", 1)
    /\ NoTwoShare("Format", 1)
    /\ NoTwoShare("Publisher", 1)
    /\ NoTwoShare("Condition", 1)
    /\ NoTwoShare("Condition", 2)

\* C2 witness: insert_condition was rejected for a Description that a row
\* of Condition holds under another Name.
C2_Witness ==
    /\ InsertReturned
    /\ call.f = "insert_condition"
    /\ error = "IntegrityError: UNIQUE"
    /\ rows["Condition"] # <<>>
    /\ rows["Condition"][1].vals[1] # Stored(call.args[1])
    /\ rows["Condition"][1].vals[2] = Stored(call.args[2])

NoNull(e, c) == \A i \in 1..Len(rows[e]) : rows[e][i].vals[c] # NULL

\* C3: in every state no row holds null in Title.Name, Author.First,
\* Genre.Name, Format.Name, Publisher.Name, Condition.Name or
\* Condition.Description.
C3_NotNullColumns ==
    /\ NoNull("Title", 1)
    /\ NoNull("Author", 2)
    /\ NoNull("Genre", 1)
    /\ NoNull("Format", 1)
    /\ NoNull("Publisher", 1)
    /\ NoNull("Condition", 1)
    /\ NoNull("Condition", 2)

\* C3 witness: an insert of a null Name was rejected on a Title table that
\* holds a row.
C3_Witness ==
    /\ InsertReturned
    /\ call.f = "insert_title"
    /\ call.args = <<NULL>>
    /\ error = "IntegrityError: NOT NULL"
    /\ Len(rows["Title"]) = 1

\* The arguments are as many as the columns and each can be bound.
WellFormed(e, args) ==
    /\ Len(args) = Arity(e)
    /\ \A i \in 1..Len(args) : args[i] # Big

\* C4: an insert into a present table that supplies null for a NOT NULL
\* column, and values that can be stored for the others, is rejected with a
\* not-null violation and leaves the row count of the table unchanged.
C4_NotNullRejected ==
    InsertReturned =>
        LET e == EntityOf(call.f) IN
        ( /\ before.tables[e]
          /\ WellFormed(e, call.args)
          /\ \E c \in NotNullPositions(e) : call.args[c] = NULL )
        => /\ error = "IntegrityError: NOT NULL"
           /\ Len(rows[e]) = Len(before.rows[e])

\* C4 witness: insert_condition with a Name and a null Description has
\* returned, on a Condition table that holds a row.
C4_Witness ==
    /\ InsertReturned
    /\ call.f = "insert_condition"
    /\ call.args = <<Text("a"), NULL>>
    /\ error = "IntegrityError: NOT NULL"
    /\ Len(rows["Condition"]) = 1

\* Some row of old holds, in a UNIQUE column of e, what args supplies for it.
Collides(e, args, old) ==
    \E c \in UniquePositions(e) :
        \E i \in 1..Len(old) : old[i].vals[c] = Stored(args[c])

\* The arguments make a row that is valid but for uniqueness.
OtherwiseValid(e, args) ==
    /\ WellFormed(e, args)
    /\ \A c \in NotNullPositions(e) : args[c] # NULL

\* C5: an otherwise valid insert into a present table succeeds when no row
\* of the table holds its value of any UNIQUE column, and is rejected with a
\* unique violation, the table unchanged, when a row does: of two rows that
\* agree on a UNIQUE column the first is persisted and the second is not.
C5_UniqueRejected ==
    InsertReturned =>
        LET e == EntityOf(call.f) IN
        (before.tables[e] /\ OtherwiseValid(e, call.args))
        => IF Collides(e, call.args, before.rows[e])
           THEN /\ error = "IntegrityError: UNIQUE"
                /\ rows[e] = before.rows[e]
           ELSE /\ error = "none"
                /\ Len(rows[e]) = Len(before.rows[e]) + 1

\* C5 witness: the second of two Condition rows that agree on Name only has
\* been rejected, and the first is the one row of the table.
C5_Witness ==
    /\ InsertReturned
    /\ call.f = "insert_condition"
    /\ error = "IntegrityError: UNIQUE"
    /\ Len(rows["Condition"]) = 1
    /\ rows["Condition"][1].vals[1] = call.args[1]
    /\ rows["Condition"][1].vals[2] # Stored(call.args[2])

\* C6: the i-th row inserted into a table has id i, whatever its values: the
\* rows of every table carry the ids 1..N in insertion order, and a
\* successful insert adds its row last, with the row count as its id.
C6_AutoIncrement ==
    /\ \A e \in Entities : \A i \in 1..Len(rows[e]) : rows[e][i].id = i
    /\ (InsertReturned /\ error = "none") =>
          LET e == EntityOf(call.f) IN
          /\ Len(rows[e]) = Len(before.rows[e]) + 1
          /\ rows[e][Len(rows[e])].id = Len(before.rows[e]) + 1

\* C6 witness: the second of two Title rows with the same Name has been
\* inserted.
C6_Witness ==
    /\ InsertReturned
    /\ call.f = "insert_title"
    /\ error = "none"
    /\ Len(rows["Title"]) = 2
    /\ rows["Title"][1].vals = rows["Title"][2].vals

\* C7 as stated: the row read back after a successful insert holds the
\* supplied values, unaltered, in the order supplied.
C7_RoundTripAnyValue ==
    (InsertReturned /\ error = "none") =>
        LET e == EntityOf(call.f) IN
        rows[e][Len(rows[e])].vals = call.args

\* C7: the row read back after a successful insert of text and null values
\* holds exactly the supplied values in the order supplied, after the id
\* assigned; a supplied integer is read back as its decimal text.
C7_RoundTrip ==
    (InsertReturned /\ error = "none") =>
        LET e == EntityOf(call.f)
            r == rows[e][Len(rows[e])]
        IN /\ Len(r.vals) = Len(call.args)
           /\ r.id = Len(rows[e])
           /\ \A c \in 1..Len(call.args) :
                 IF call.args[c][1] \in {"text", "null"}
                 THEN r.vals[c] = call.args[c]
                 ELSE r.vals[c] = <<"text", call.args[c][2]>>

\* C7 witness: insert_author has stored a row of nulls and text.
C7_Witness ==
    /\ InsertReturned
    /\ call.f = "insert_author"
    /\ error = "none"
    /\ call.args = <<NULL, Text("a"), NULL, NULL, NULL>>

C9_AlwaysClosed ==
    /\ pc = "exit" => (cursor = "closed" /\ connection.state = "closed")
    /\ ~unclosed

\* C10 as stated: when an insert executes its statement, foreign-key
\* enforcement is on for the connection the call opened.
C10_ForeignKeysOn ==
    (pc = "execute" /\ call.f \in InsertFunctions) => connection.foreign_keys

\* The state in which the caller has the outcome of insert_titleauthor.
TitleAuthorReturned == pc = "exit" /\ call.f = "insert_titleauthor"

\* The data model's foreign keys of TitleAuthor: the table each position of
\* (TitleID, AuthorID) refers to.
Referenced(c) == IF c = 1 THEN "Title" ELSE "Author"

\* The value supplied at position c is the ID of no row the referenced table
\* held when the call began.
Dangling(args, c) ==
    /\ args[c] # NULL
    /\ \A i \in 1..Len(before.rows[Referenced(c)]) :
          before.rows[Referenced(c)][i].id # Decimal(args[c][2])

\* insert_titleauthor was called with a TitleID and an AuthorID, neither
\* NULL, on a store that has Title, Author and TitleAuthor.
ReferencingInsert ==
    /\ TitleAuthorReturned
    /\ before.tables["Title"]
    /\ before.tables["Author"]
    /\ before.tables["TitleAuthor"]
    /\ Len(call.args) = 2
    /\ call.args[1] # NULL
    /\ call.args[2] # NULL

\* C11 as stated: insert_titleauthor with a TitleID or an AuthorID that is
\* the ID of no row of the referenced table is rejected with a foreign-key
\* violation and persists nothing.
C11_DanglingRejected ==
    ( /\ ReferencingInsert
      /\ \E c \in {1, 2} : Dangling(call.args, c) )
    => /\ error = "IntegrityError: FOREIGN KEY"
       /\ rows = before.rows

\* C12 as stated: an insert that the constraints of its table forbid
\* returns the error of its constraint class to the caller, not-null for a
\* null in a NOT NULL column, foreign-key for a dangling reference, and
\* leaves the store as it was; it never returns normally.
C12_ViolationKindReported ==
    /\ InsertReturned =>
          LET e == EntityOf(call.f) IN
          (before.tables[e] /\ WellFormed(e, call.args)) =>
             /\ (\E c \in NotNullPositions(e) : call.args[c] = NULL)
                   => error = "IntegrityError: NOT NULL"
             /\ ( /\ \A c \in NotNullPositions(e) : call.args[c] # NULL
                  /\ Collides(e, call.args, before.rows[e]) )
                   => error = "IntegrityError: UNIQUE"
    /\ (TitleAuthorReturned /\ before.tables["TitleAuthor"]
          /\ Len(call.args) = 2) =>
          /\ (\E c \in {1, 2} : call.args[c] = NULL)
                => error = "IntegrityError: NOT NULL"
          /\ ( /\ ReferencingInsert
               /\ \E c \in {1, 2} : Dangling(call.args, c) )
                => error = "IntegrityError: FOREIGN KEY"
    /\ (pc = "exit" /\ error # "none") => rows = before.rows

\* The state in which the caller has the outcome of a create_table_* call.
CreateReturned == pc = "exit" /\ call.f \in CreateFunctions

\* The table each create_table_* function is for.
Creates(f) ==
    CASE f = "create_table_title" -> "Title"
      [] f = "create_table_genre" -> "Genre"
      [] f = "create_table_format" -> "Format"
      [] f = "create_table_publisher" -> "Publisher"
      [] f = "create_table_condition" -> "Condition"
      [] f = "create_table_author" -> "Author"

\* C13: create_table_* called when its table is present raises
\* sqlite3.OperationalError to the caller and leaves the set of tables and
\* the rows of every table, that one included, as they were.
C13_CreateExistingFails ==
    (CreateReturned /\ before.tables[Creates(call.f)]) =>
        /\ error = "OperationalError"
        /\ tables = before.tables
        /\ rows = before.rows

\* C13 witness: create_table_genre has failed on a Genre table that holds a
\* row, in a store that has another table too.
C13_Witness ==
    /\ CreateReturned
    /\ call.f = "create_table_genre"
    /\ error = "OperationalError"
    /\ Len(rows["Genre"]) = 1
    /\ tables["Title"]

\* C14: insert_title with a Name that can be stored succeeds whatever Names
\* the rows of Title hold, equal ones included: it adds one row, last, with
\* the next id and that Name, and keeps the rows that were there.
C14_TitleNameNotUnique ==
    ( /\ InsertReturned
      /\ call.f = "insert_title"
      /\ before.tables["Title"]
      /\ OtherwiseValid("Title", call.args) )
    => LET n == Len(before.rows["Title"]) IN
       /\ error = "none"
       /\ Len(rows["Title"]) = n + 1
       /\ SubSeq(rows["Title"], 1, n) = before.rows["Title"]
       /\ rows["Title"][n + 1] = [id |-> n + 1,
                                  vals |-> << Stored(call.args[1]) >>]

\* C14 witness: insert_title has returned after adding a row whose Name is
\* the Name of every row Title held before, of which there was at least one.
C14_Witness ==
    /\ InsertReturned
    /\ call.f = "insert_title"
    /\ error = "none"
    /\ before.rows["Title"] # <<>>
    /\ \A i \in 1..Len(before.rows["Title"]) :
          before.rows["Title"][i].vals[1] = Stored(call.args[1])
    /\ Len(rows["Title"]) = Len(before.rows["Title"]) + 1

\* C15: insert_author with five values on a present Author table is rejected
\* with a not-null violation, the table unchanged, when First is null, and
\* otherwise succeeds and adds the row as given, whichever of Prefix,
\* Middle, Last and Suffix are null.
C15_OnlyFirstMandatory ==
    ( /\ InsertReturned
      /\ call.f = "insert_author"
      /\ before.tables["Author"]
      /\ WellFormed("Author", call.args) )
    => LET n == Len(before.rows["Author"]) IN
       IF call.args[2] = NULL
       THEN /\ error = "IntegrityError: NOT NULL"
            /\ rows = before.rows
       ELSE /\ error = "none"
            /\ Len(rows["Author"]) = n + 1
            /\ rows["Author"][n + 1].vals
                  = [c \in 1..5 |-> Stored(call.args[c])]

\* C15 witness: insert_author with First alone not null has added its row
\* to an Author table whose earlier row has Last alone null.
C15_Witness ==
    /\ InsertReturned
    /\ call.f = "insert_author"
    /\ error = "none"
    /\ call.args = <<NULL, Text("b"), NULL, NULL, NULL>>
    /\ Len(rows["Author"]) = 2
    /\ rows["Author"][1].vals
          = <<Text("a"), Text("b"), Text("c"), NULL, Text("e")>>

\* C16: no step of a create_table_* or insert_* call removes a table,
\* removes a row, or changes the id or a value of a row: from each state to
\* the next every present table stays present, and the rows of every table
\* stay as they are, in their order, with at most new rows after them.
C16_NothingRemoved ==
    [][\A e \in Entities :
          /\ tables[e] => tables'[e]
          /\ Len(rows[e]) <= Len(rows'[e])
          /\ SubSeq(rows'[e], 1, Len(rows[e])) = rows[e]]_vars

\* C16 witness: create_table_title has made the Title table in a store
\* whose other tables hold two rows, which are as they were.
C16_Witness ==
    /\ CreateReturned
    /\ call.f = "create_table_title"
    /\ error = "none"
    /\ tables["Title"]
    /\ TotalRows = 2
    /\ rows = before.rows

\* The state in which the caller has the outcome of the read f.
ReadReturned(f) == pc = "read" /\ call.f = f

\* The ids of the rows of table t of the store, in the order of the rows.
IdsOf(t) == [i \in 1..Len(rows[t]) |-> rows[t][i].id]

\* C17: when an insert call returns without error, its row is a committed
\* row of the store, committed before the call closed its connection, and
\* nothing is left uncommitted; a read of the ids of the table through the
\* caller's connection, open since before the call began, returns the id of
\* the new row; and every such read returns the id of every committed row.
C17_CommittedBeforeReturn ==
    /\ (InsertReturned /\ error = "none") =>
          LET e == EntityOf(call.f)
              n == Len(before.rows[e])
              ids == GetValidRecordId(cls_cursor, e, tables, rows)
          IN /\ log = <<"execute", "commit", "cursor.close",
                        "connection.close">>
             /\ connection.row = NoRow
             /\ Len(rows[e]) = n + 1
             /\ cls_cursor = "open" =>
                   /\ ids.error = "none"
                   /\ \E i \in 1..Len(ids.result.value) :
                         ids.result.value[i] = rows[e][n + 1].id
    /\ (ReadReturned("get_valid_record_id") /\ error = "none") =>
          \A i \in 1..Len(rows[call.args[1]]) :
             \E j \in 1..Len(result.value) :
                result.value[j] = rows[call.args[1]][i].id

\* C17 witness: the caller, whose connection is open, has the normal return
\* of an insert_condition that added a second row.
C17_Witness ==
    /\ InsertReturned
    /\ call.f = "insert_condition"
    /\ error = "none"
    /\ cls_cursor = "open"
    /\ Len(before.rows["Condition"]) = 1
    /\ Len(rows["Condition"]) = 2

\* The eleven entities of the data model, and the columns the data model
\* gives each of those that have a create_table_* function.
RecognizedEntities ==
    {"Title", "Author", "Genre", "Format", "Publisher", "Condition",
     "Location", "TitleAuthor", "Work", "Publication", "Book"}

DeclaredColumns(e) ==
    CASE e = "Condition" -> <<"ID", "Name", "Description">>
      [] e = "Author" -> <<"ID", "Prefix", "First", "Middle", "Last", "Suffix">>
      [] OTHER -> <<"ID", "Name">>

\* Table t is a table of the store.
IsPresent(t) == t \in Tables /\ tables[t]

\* C18 as stated: get_table_column_names returns the declared column names,
\* ID first, for a recognized entity whose table is present, returns the
\* empty sequence and raises nothing for a recognized entity whose table is
\* absent, and raises DatabaseTableError for any other name.
C18_ColumnNames ==
    ReadReturned("get_table_column_names") =>
        LET t == call.args[1] IN
        IF t \notin RecognizedEntities THEN error = "DatabaseTableError"
        ELSE /\ error = "none"
             /\ result.value = IF IsPresent(t) THEN DeclaredColumns(t)
                                ELSE <<>>

\* C18, amended: for a name that is not a recognized entity
\* get_table_column_names raises DatabaseTableError, whether or not the
\* caller has an open cursor; for a recognized entity it raises
\* NoDatabaseConnectionError when the caller has no open cursor, and with
\* an open cursor returns the declared column names, ID first, when the
\* table is present and the empty sequence, raising nothing, when it is
\* absent.
C18_ColumnNamesOpenCursor ==
    ReadReturned("get_table_column_names") =>
        LET t == call.args[1] IN
        IF t \notin RecognizedEntities THEN error = "DatabaseTableError"
        ELSE IF cls_cursor = "none"
        THEN error = "NoDatabaseConnectionError"
        ELSE /\ error = "none"
             /\ result.type = "list"
             /\ result.value = IF IsPresent(t) THEN DeclaredColumns(t)
                                ELSE <<>>

\* C18 witness: get_table_column_names("Author") has returned the six
\* column names of the Author table.
C18_Witness ==
    /\ ReadReturned("get_table_column_names")
    /\ call.args = <<"Author">>
    /\ error = "none"
    /\ Len(result.value) = 6
    /\ result.value[1] = "ID"

\* C19: get_valid_record_id raises NoDatabaseConnectionError when the caller
\* has no open cursor; with an open cursor it raises DatabaseTableError for
\* a name that is not a recognized entity or whose table is absent, and for
\* a present table returns the ids of its rows, each once, in strictly
\* ascending order, the empty sequence when it has no row.
C19_ValidRecordIds ==
    ReadReturned("get_valid_record_id") =>
        LET t == call.args[1] IN
        IF cls_cursor = "none" THEN error = "NoDatabaseConnectionError"
        ELSE IF t \notin RecognizedEntities \/ ~IsPresent(t)
        THEN error = "DatabaseTableError"
        ELSE /\ error = "none"
             /\ result.type = "list"
             /\ Len(result.value) = Len(rows[t])
             /\ {result.value[i] : i \in 1..Len(result.value)}
                   = {rows[t][i].id : i \in 1..Len(rows[t])}
             /\ \A i, j \in 1..Len(result.value) :
                   i < j => result.value[i] < result.value[j]

\* C19 witness: get_valid_record_id("Title") has returned the ids of the two
\* rows of Title.
C19_Witness ==
    /\ ReadReturned("get_valid_record_id")
    /\ call.args = <<"Title">>
    /\ error = "none"
    /\ result.value = <<1, 2>>

\* C20: when a read of the caller has returned or raised, the tables of the
\* store and the rows of each are those of before the read.
C20_ReadsDoNotMutate ==
    pc = "read" => (tables = before.tables /\ rows = before.rows)

\* C20 witness: get_database_table_names has returned the names of two
\* tables of a store that holds two rows.
C20_Witness ==
    /\ ReadReturned("get_database_table_names")
    /\ error = "none"
    /\ Cardinality(result.value) = 2
    /\ TotalRows = 2

\* The ids of the rows of table e in the store, and in the store as it was
\* when the call began.
IdSet(e) == {rows[e][i].id : i \in 1..Len(rows[e])}

IdSetBefore(e) == {before.rows[e][i].id : i \in 1..Len(before.rows[e])}

\* C24: in every state the ids of the rows of each table are exactly 1..n
\* for its n rows; a rejected insert leaves the ids of its table as they
\* were, and a successful one adds the id n + 1, whatever inserts were
\* rejected before it.
C24_IdsAreOneToN ==
    /\ \A e \in Entities : IdSet(e) = 1..Len(rows[e])
    /\ InsertReturned =>
          LET e == EntityOf(call.f) IN
          IF error = "none"
          THEN IdSet(e) = IdSetBefore(e) \cup {Len(before.rows[e]) + 1}
          ELSE IdSet(e) = IdSetBefore(e)

\* C24 witness: an insert_genre rejected for a Name already held has
\* returned, and the one row of Genre has id 1.
C24_Witness ==
    /\ InsertReturned
    /\ call.f = "insert_genre"
    /\ error = "IntegrityError: UNIQUE"
    /\ IdSet("Genre") = {1}

\* Sequence p is the beginning of sequence q.
IsPrefix(p, q) == Len(p) <= Len(q) /\ SubSeq(q, 1, Len(p)) = p

Logged(m) == \E i \in 1..Len(log) : log[i] = m

CallsWithoutRollback ==
    <<"execute", "commit", "cursor.close", "connection.close">>

CallsWithRollback ==
    <<"execute", "rollback", "commit", "cursor.close", "connection.close">>

DatabaseErrors ==
    {"OperationalError", "ProgrammingError", "IntegrityError: NOT NULL",
     "IntegrityError: UNIQUE", "IntegrityError: FOREIGN KEY"}

\* C25: in every state of a call the methods invoked so far are, in order,
\* a beginning of execute, commit, cursor.close, connection.close, or of the
\* same with rollback after execute; rollback is invoked when and only when
\* the statement raised a database error; commit has been invoked whenever
\* the call returns or raises; a call that runs to connection.close has
\* invoked the whole sequence; and after rollback and commit the store is
\* as it was when the call began.
C25_CallOrder ==
    /\ IsPrefix(log, CallsWithoutRollback) \/ IsPrefix(log, CallsWithRollback)
    /\ Logged("rollback") => error \in DatabaseErrors
    /\ (Logged("commit") /\ ~Logged("rollback") /\ error \in DatabaseErrors)
          => (pc = "exit" /\ log = <<"execute", "commit">>)
    /\ pc = "exit" => Logged("commit")
    /\ Logged("connection.close") =>
          log \in {CallsWithoutRollback, CallsWithRollback}
    /\ (pc = "exit" /\ Logged("rollback")) =>
          /\ log = CallsWithRollback
          /\ rows = before.rows
          /\ tables = before.tables

\* C25 witness: an insert_condition rejected for a null Description has gone
\* through rollback, commit and both close calls, and the row Condition
\* held is its only row.
C25_Witness ==
    /\ InsertReturned
    /\ call.f = "insert_condition"
    /\ error = "IntegrityError: NOT NULL"
    /\ log = CallsWithRollback
    /\ Len(rows["Condition"]) = 1

\* C26: an insert call made while its table is absent raises
\* sqlite3.OperationalError to the caller, whatever its arguments, and
\* leaves the store as it was: the table still absent, every table with
\* the rows it had.
C26_InsertIntoAbsentTable ==
    (InsertReturned /\ ~before.tables[EntityOf(call.f)]) =>
        /\ error = "OperationalError"
        /\ ~tables[EntityOf(call.f)]
        /\ tables = before.tables
        /\ rows = before.rows

\* C26 witness: insert_format with a Name has failed for want of a Format
\* table, in a store that has a table with a row.
C26_Witness ==
    /\ InsertReturned
    /\ call.f = "insert_format"
    /\ call.args = <<Text("a")>>
    /\ error = "OperationalError"
    /\ ~tables["Format"]
    /\ TotalRows = 1

\* C27: an insert call with fewer or more values than its table has non-ID
\* columns raises to the caller and leaves every table with the rows it
\* had; on a present table the error is sqlite3.ProgrammingError.
C27_WrongNumberOfValues ==
    (InsertReturned /\ Len(call.args) # Arity(EntityOf(call.f))) =>
        /\ error # "none"
        /\ before.tables[EntityOf(call.f)] => error = "ProgrammingError"
        /\ rows = before.rows
        /\ tables = before.tables

\* C27 witness: insert_title with two values has failed on a Title table
\* that holds a row.
C27_Witness ==
    /\ InsertReturned
    /\ call.f = "insert_title"
    /\ Len(call.args) = 2
    /\ error = "ProgrammingError"
    /\ Len(rows["Title"]) = 1

\* C28: when an insert call returns or raises, the set of tables and the
\* rows of every table but its own are as they were when it began; when a
\* create_table_* call returns or raises, the rows of every table and the
\* presence of every table but its own are as they were when it began.
C28_Frame ==
    /\ InsertReturned =>
          /\ tables = before.tables
          /\ \A t \in Entities \ {EntityOf(call.f)} :
                rows[t] = before.rows[t]
    /\ CreateReturned =>
          /\ rows = before.rows
          /\ \A t \in Entities \ {Creates(call.f)} :
                tables[t] = before.tables[t]

\* C28 witness: create_table_format has made the Format table in a store
\* that has the Publisher table with a row and no Genre table.
C28_Witness ==
    /\ CreateReturned
    /\ call.f = "create_table_format"
    /\ error = "none"
    /\ tables["Format"]
    /\ Len(rows["Publisher"]) = 1
    /\ ~tables["Genre"]

\* C30: when the caller has no open cursor, get_valid_record_id raises
\* NoDatabaseConnectionError whatever the name, get_table_column_names
\* raises DatabaseTableError for a name that is not a recognized entity,
\* and for a recognized entity it raises NoDatabaseConnectionError and
\* returns nothing.
C30_ReadErrorPrecedence ==
    (pc = "read" /\ cls_cursor = "none") =>
        /\ call.f = "get_valid_record_id"
              => error = "NoDatabaseConnectionError"
        /\ call.f = "get_table_column_names" =>
              IF call.args[1] \notin RecognizedEntities
              THEN error = "DatabaseTableError"
              ELSE /\ error = "NoDatabaseConnectionError"
                   /\ result = NoResult

\* C30 witness: without an open cursor, get_table_column_names("Books") has
\* raised DatabaseTableError, on a store that has tables.
C30_Witness ==
    /\ ReadReturned("get_table_column_names")
    /\ cls_cursor = "none"
    /\ call.args = <<"Books">>
    /\ error = "DatabaseTableError"
    /\ tables["Title"]

\* The outcome of the call that has returned: its exception and the store.
Outcome == [error |-> error, tables |-> tables, rows |-> rows]

DataModelColumns(e) ==
    CASE e = "Title" -> <<"ID", "Name">>
      [] e = "Author" -> <<"ID", "Prefix", "First", "Middle", "Last", "Suffix">>
      [] e = "Genre" -> <<"ID", "Name">>
      [] e = "TitleAuthor" -> <<"ID", "TitleID", "AuthorID">>
      [] e = "Work" -> <<"ID", "TitleAuthorID", "GenreID">>
      [] e = "Format" -> <<"ID", "Name">>
      [] e = "Publisher" -> <<"ID", "Name">>
      [] e = "Publication" ->
            <<"ID", "WorkID", "FormatID", "PublisherID", "ISBN">>
      [] e = "Condition" -> <<"ID", "Name", "Description">>
      [] e = "Location" -> <<"ID", "Name", "Description">>
      [] e = "Book" -> <<"ID", "PublicationID", "ConditionID", "LocationID">>

\* The store has the table of every entity.
FullSchema == \A e \in RecognizedEntities : IsPresent(e)

ReferencedBy(e) ==
    CASE e = "TitleAuthor" -> {"Title", "Author"}
      [] e = "Work" -> {"TitleAuthor", "Genre"}
      [] e = "Publication" -> {"Work", "Format", "Publisher"}
      [] e = "Book" -> {"Publication", "Condition", "Location"}
      [] OTHER -> {}

CreatedBy(f) ==
    CASE f = "create_table_titleauthor" -> "TitleAuthor"
      [] f = "create_table_work" -> "Work"
      [] f = "create_table_publication" -> "Publication"
      [] f = "create_table_location" -> "Location"
      [] f = "create_table_book" -> "Book"
      [] OTHER -> Creates(f)

WithoutForeignKeys ==
    {"Title", "Author", "Genre", "Format", "Publisher", "Condition",
     "Location"}

RelatedEntityOf(f) ==
    CASE f = "insert_work" -> "Work"
      [] f = "insert_publication" -> "Publication"
      [] f = "insert_book" -> "Book"

NullableForeignKeys(e) ==
    CASE e = "Work" -> {2}
      [] e = "Publication" -> {3}
      [] e = "Book" -> {2, 3}

MandatoryForeignKeys(e) ==
    CASE e = "Work" -> {1}
      [] e = "Publication" -> {1, 2}
      [] e = "Book" -> {1}

ReferencedAt(e, c) ==
    CASE e = "Work" -> <<"TitleAuthor", "Genre">>[c]
      [] e = "Publication" -> <<"Work", "Format", "Publisher", "">>[c]
      [] e = "Book" -> <<"Publication", "Condition", "Location">>[c]

\* The value v is the id of a row that table t held when the call began.
RefersToRow(v, t) ==
    \E i \in 1..Len(before.rows[t]) :
        before.rows[t][i].id = Decimal(v[2])

\* An insert into Work, Publication or Book has returned that supplied null
\* for a foreign key that may be null, and elsewhere the id of a row for
\* every foreign key it did not leave null and no ISBN.
NullForeignKeyInsert ==
    /\ pc = "exit"
    /\ call.f \in {"insert_work", "insert_publication", "insert_book"}
    /\ LET e == RelatedEntityOf(call.f) IN
       /\ before.tables[e]
       /\ Len(call.args) = Len(DataModelColumns(e)) - 1
       /\ \E c \in NullableForeignKeys(e) : call.args[c] = NULL
       /\ \A c \in MandatoryForeignKeys(e) : call.args[c] # NULL
       /\ \A c \in NullableForeignKeys(e) \cup MandatoryForeignKeys(e) :
             call.args[c] # NULL
                => RefersToRow(call.args[c], ReferencedAt(e, c))
       /\ e = "Publication" => call.args[4] = NULL

====
